---- MODULE Spec2Model ----
(***************************************************************************)
(* Model of shoe_agg.py: the shoe collection analyzer.                     *)
(*                                                                         *)
(* Text is modelled as sequences of one-character strings so that          *)
(* str.strip, str.split, str.capitalize, str.endswith, int() and float()   *)
(* are computed character by character, as Python computes them.           *)
(***************************************************************************)
EXTENDS Integers, Sequences, FiniteSets, TLC

(* ------------------------------------------------------------------ *)
(* Bounds of the model                                                 *)
(* ------------------------------------------------------------------ *)
\* greatest number of lines of an input file or piped stream
MaxLines == 3
\* greatest record count answered at the count prompt
MaxCount == 2

(* ------------------------------------------------------------------ *)
(* Python string primitives                                            *)
(* ------------------------------------------------------------------ *)
LowerAlpha == <<"a","b","c","d","e","f","g","h","i","j","k","l","m",
                "n","o","p","q","r","s","t","u","v","w","x","y","z">>
UpperAlpha == <<"A","B","C","D","E","F","G","H","I","J","K","L","M",
                "N","O","P","Q","R","S","T","U","V","W","X","Y","Z">>
Digits == <<"0","1","2","3","4","5","6","7","8","9">>
Whitespace == {" ", "\t", "\n", "\r"}

IndexIn(c, table) == CHOOSE i \in 1..Len(table) : table[i] = c
IsIn(c, table) == \E i \in 1..Len(table) : table[i] = c

Upper(c) == IF IsIn(c, LowerAlpha) THEN UpperAlpha[IndexIn(c, LowerAlpha)] ELSE c
Lower(c) == IF IsIn(c, UpperAlpha) THEN LowerAlpha[IndexIn(c, UpperAlpha)] ELSE c
IsDigit(c) == IsIn(c, Digits)
DigitVal(c) == IndexIn(c, Digits) - 1

\* str.lower()
LowerStr(s) == [i \in 1..Len(s) |-> Lower(s[i])]

\* str.capitalize(): first character upper-cased, all the others lower-cased
Capitalize(s) == [i \in 1..Len(s) |-> IF i = 1 THEN Upper(s[i]) ELSE Lower(s[i])]

RECURSIVE LStrip(_)
LStrip(s) == IF s # <<>> /\ Head(s) \in Whitespace THEN LStrip(Tail(s)) ELSE s

RECURSIVE RStrip(_)
RStrip(s) == IF s # <<>> /\ s[Len(s)] \in Whitespace
             THEN RStrip(SubSeq(s, 1, Len(s) - 1)) ELSE s

\* str.strip()
Strip(s) == RStrip(LStrip(s))

\* str.startswith / str.endswith
StartsWith(s, p) == Len(s) >= Len(p) /\ SubSeq(s, 1, Len(p)) = p
EndsWith(s, p) == Len(s) >= Len(p) /\ SubSeq(s, Len(s) - Len(p) + 1, Len(s)) = p

\* str.split(sep) for a one-character separator: always at least one part
RECURSIVE SplitFrom(_, _, _)
SplitFrom(s, sep, cur) ==
    IF s = <<>> THEN <<cur>>
    ELSE IF Head(s) = sep THEN <<cur>> \o SplitFrom(Tail(s), sep, <<>>)
    ELSE SplitFrom(Tail(s), sep, Append(cur, Head(s)))
Split(s, sep) == SplitFrom(s, sep, <<>>)

(* ------------------------------------------------------------------ *)
(* Numbers: int() and float()                                          *)
(* A float is [kind, m, e]: kind "num" is m / 10^e, kind "inf" is the  *)
(* infinity of the sign of m, kind "nan" is not-a-number.              *)
(* ------------------------------------------------------------------ *)
Num(m, e) == [kind |-> "num", m |-> m, e |-> e]
Zero == Num(0, 0)
NaN == [kind |-> "nan", m |-> 0, e |-> 0]
Inf(sign) == [kind |-> "inf", m |-> sign, e |-> 0]

HasSign(s) == s # <<>> /\ Head(s) \in {"+", "-"}
Unsigned(s) == IF HasSign(s) THEN Tail(s) ELSE s
SignOf(s) == IF s # <<>> /\ Head(s) = "-" THEN -1 ELSE 1

AllDigits(s) == \A i \in 1..Len(s) : IsDigit(s[i])

RECURSIVE DigitsValue(_, _)
DigitsValue(s, acc) ==
    IF s = <<>> THEN acc ELSE DigitsValue(Tail(s), 10 * acc + DigitVal(Head(s)))

\* int(s) succeeds: optional surrounding whitespace, optional sign, digits
IsIntLiteral(t) ==
    LET s == Unsigned(Strip(t)) IN s # <<>> /\ AllDigits(s)
IntValue(t) ==
    LET s == Strip(t) IN SignOf(s) * DigitsValue(Unsigned(s), 0)

SpecialFloats == { <<"n","a","n">>, <<"i","n","f">>,
                   <<"i","n","f","i","n","i","t","y">> }

\* the digits of a decimal numeral with its point removed
NoPoint(s) == SelectSeq(s, LAMBDA c : c # ".")
PointCount(s) == Len(s) - Len(NoPoint(s))
PointPos(s) == CHOOSE i \in 1..Len(s) : s[i] = "."

IsDecimal(s) == /\ NoPoint(s) # <<>>
                /\ AllDigits(NoPoint(s))
                /\ PointCount(s) <= 1

\* float(s) succeeds (decimal numerals without exponent, and nan/inf)
IsFloatLiteral(t) ==
    LET s == Unsigned(Strip(t)) IN
    LowerStr(s) \in SpecialFloats \/ IsDecimal(s)

RECURSIVE Normalise(_, _)
Normalise(m, e) ==
    IF e > 0 /\ m % 10 = 0 THEN Normalise(m \div 10, e - 1) ELSE Num(m, e)

FloatValue(t) ==
    LET s == Strip(t)
        u == Unsigned(s)
        frac == IF PointCount(u) = 1 THEN Len(u) - PointPos(u) ELSE 0
    IN  IF LowerStr(u) = <<"n","a","n">> THEN NaN
        ELSE IF LowerStr(u) \in SpecialFloats THEN Inf(SignOf(s))
        ELSE LET n == Normalise(DigitsValue(NoPoint(u), 0), frac)
             IN  Num(SignOf(s) * n.m, n.e)

\* v >= 0 as Python evaluates it (False for nan)
NonNegative(v) == \/ v.kind = "num" /\ v.m >= 0
                  \/ v.kind = "inf" /\ v.m > 0

(* ------------------------------------------------------------------ *)
(* Literals of the program                                             *)
(* ------------------------------------------------------------------ *)
Casual == <<"C","a","s","u","a","l">>
Athletic == <<"A","t","h","l","e","t","i","c">>
Formal == <<"F","o","r","m","a","l">>
\* ["Casual", "Athletic", "Formal"]
UsageValues == {Casual, Athletic, Formal}

temp_filename == <<"t","e","m","p","_","s","h","o","e","_","d","a","t","a",".","t","x","t">>
DefaultTemplate == <<"s","h","o","e","_","d","a","t","a","_","t","e","m","p","l","a","t","e",
                     ".","t","x","t">>
DefaultCsv == <<"s","h","o","e","_","c","o","l","l","e","c","t","i","o","n",".","c","s","v">>
DefaultCharts == <<"s","h","o","e","_","c","o","l","l","e","c","t","i","o","n","_",
                   "c","h","a","r","t","s",".","p","n","g">>
DefaultTable == <<"s","h","o","e","_","c","o","l","l","e","c","t","i","o","n","_",
                  "t","a","b","l","e",".","p","n","g">>
CsvExt == <<".","c","s","v">>
PngExt == <<".","p","n","g">>
\* ('.png', '.jpg', '.pdf', '.svg')
FigureExts == { PngExt, <<".","j","p","g">>, <<".","p","d","f">>, <<".","s","v","g">> }

(* ------------------------------------------------------------------ *)
(* read_shoe_data_from_file                                            *)
(* ------------------------------------------------------------------ *)
ShoeRecord(brand, name, color, usage, size) ==
    [brand |-> brand, name |-> name, color |-> color, usage |-> usage, size |-> size]

\* the test without its comment clause
IsDataLine_KeepsComments(line) == Strip(line) # <<>>

\* line.strip() and not line.strip().startswith('#')
IsDataLine(line) == Strip(line) # <<>> /\ ~StartsWith(Strip(line), <<"#">>)

\* the loop body with the usage default applied without its print
ParseRow_SilentUsage(parts) ==
    LET usage == Capitalize(Strip(parts[4]))
        sizeTok == Strip(parts[5])
        sizeOk == IsFloatLiteral(sizeTok)
    IN  [ rec |-> ShoeRecord(Capitalize(Strip(parts[1])),
                             Capitalize(Strip(parts[2])),
                             Capitalize(Strip(parts[3])),
                             IF usage \in UsageValues THEN usage ELSE Casual,
                             IF sizeOk THEN FloatValue(sizeTok) ELSE Zero),
          warns |-> IF sizeOk THEN <<>> ELSE << <<"size", sizeTok>> >> ]

\* the body of the loop for one line with at least 5 parts: the record and
\* the warnings printed for it, in the order they are printed
ParseRow(parts) ==
    LET usage == Capitalize(Strip(parts[4]))
        sizeTok == Strip(parts[5])
        usageOk == usage \in UsageValues
        sizeOk == IsFloatLiteral(sizeTok)
    IN  [ rec |-> ShoeRecord(Capitalize(Strip(parts[1])),
                             Capitalize(Strip(parts[2])),
                             Capitalize(Strip(parts[3])),
                             IF usageOk THEN usage ELSE Casual,
                             IF sizeOk THEN FloatValue(sizeTok) ELSE Zero),
          warns |-> (IF usageOk THEN <<>> ELSE << <<"usage", usage>> >>)
                    \o (IF sizeOk THEN <<>> ELSE << <<"size", sizeTok>> >>) ]

\* for line in lines[1:]: the loop from index k on, acc = [shoes, warns]
RECURSIVE ReadLines(_, _, _)
ReadLines(ls, k, acc) ==
    IF k > Len(ls) THEN acc
    ELSE LET parts == Split(Strip(ls[k]), ",")
         IN  IF IsDataLine(ls[k]) /\ Len(parts) >= 5
             THEN LET row == ParseRow(parts)
                  IN  ReadLines(ls, k + 1, [shoes |-> Append(acc.shoes, row.rec),
                                            warns |-> acc.warns \o row.warns])
             ELSE ReadLines(ls, k + 1, acc)

\* the shoes variable of main: unbound, None, or a list of records
Unbound == [tag |-> "unbound", list |-> <<>>]
None == [tag |-> "None", list |-> <<>>]
List(s) == [tag |-> "list", list |-> s]

\* the whole function for a file that opened and read as ls: the value
\* returned, the warnings and the message printed
ReadShoeData(ls) ==
    LET r == ReadLines(ls, 2, [shoes |-> <<>>, warns |-> <<>>])
    IN  IF r.shoes = <<>>
        THEN [shoes |-> None, warns |-> r.warns, msgs |-> {"no_valid_data_in_file"}]
        ELSE [shoes |-> List(r.shoes), warns |-> r.warns, msgs |-> {}]

(* ------------------------------------------------------------------ *)
(* Inputs: file contents and answers typed at the prompts              *)
(* ------------------------------------------------------------------ *)
RECURSIVE Join(_)
Join(fields) == IF Len(fields) = 1 THEN fields[1]
                ELSE fields[1] \o <<",">> \o Join(Tail(fields))

tNike == <<"n","i","k","e">>
tAdi == <<" ","A","d","I">>
tName == <<"a","M">>
tColor == <<"b","k">>

RowValid == Join(<<tNike, tName, tColor, <<"a","t","h","l","e","t","i","c">>,
                   <<"1","0",".","5","\n">> >>)
RowBadUsage == Join(<<tAdi, tName, tColor, <<"g","y","m">>, <<" ","9">>, <<"x">> >>)
RowBadSize == Join(<<tNike, tName, tColor, <<"F","O","R","M","A","L">>, <<"b","i","g">> >>)
RowNegative == Join(<<tAdi, tName, tColor, <<"c","a","s","u","a","l">>, <<"-","5">> >>)
RowHeader == Join(<<<<"B">>, <<"N">>, <<"C">>, <<"U">>, <<"S">> >>)
RowShort == Join(<<tNike, tName, tColor, <<"c","a","s","u","a","l">> >>)
RowBlank == <<" ", "\n">>
RowComment == <<" ", "#">> \o RowValid

FileLines == { RowValid, RowBadUsage, RowBadSize, RowNegative, RowHeader,
               RowShort, RowBlank, RowComment }

RECURSIVE SeqsUpTo(_, _)
SeqsUpTo(S, n) ==
    IF n = 0 THEN { <<>> }
    ELSE LET shorter == SeqsUpTo(S, n - 1)
         IN  shorter \cup { Append(s, x) : s \in {t \in shorter : Len(t) = n - 1}, x \in S }

\* the contents a file or a piped stream can have, as file.readlines() gives them
Files == SeqsUpTo(FileLines, MaxLines)

\* how a write of a file can end: written, open() raised (nothing on disk),
\* or a later write raised (the file is on disk, incomplete)
WriteOutcomes == {"ok", "open_failed", "write_failed"}

\* input() raising EOFError
EOF == <<"<EOF>">>

MenuAnswers == { <<"1">>, <<" ","2">>, <<"3">>, <<"9">>, EOF }
PathAnswers == { <<"f">>, EOF }
YesNoAnswers == { <<"y">>, <<"Y">>, <<"n">>, EOF }
CountAnswers == { <<Digits[n + 1]>> : n \in 0..MaxCount }
                \cup { <<"a","b","c">>, <<"-","1">>, <<"1",".","0">>, EOF }
BrandAnswers == { tAdi, EOF }
NameAnswers == { tName, EOF }
ColorAnswers == { tColor, EOF }
UsageAnswers == { <<"a","t","h","l","e","t","i","c">>, <<"F","O","R","M","A","L"," ">>,
                  <<"g","y","m">>, EOF }
SizeAnswers == { <<"1","0",".","5">>, <<"-","5">>, <<"b","i","g">>, EOF }
TemplateNameAnswers == { <<>>, <<"t",".","t","x","t">>, EOF }
CsvNameAnswers == { <<" ">>, <<"m","y">>, EOF }
ChartsNameAnswers == { <<>>, <<"c">>, <<"c",".","P","D","F">>, EOF }
TableNameAnswers == { <<>>, <<"t">>, EOF }

(* ------------------------------------------------------------------ *)
(* State                                                               *)
(* ------------------------------------------------------------------ *)
VARIABLES
    pc,          \* the statement main (or the function it called) is at
    tty,         \* sys.stdin.isatty()
    lines,       \* read_shoe_data_from_file: the lines read, until the caller used the result
    shoes,       \* main: shoes (Unbound, None or a list of records)
    warnings,    \* the "Warning: ..." lines printed by read_shoe_data_from_file, in order
    msgs,        \* the kinds of the other messages printed so far (the two re-prompt
                 \* notices of get_shoe_data are not recorded)
    files,       \* the names of the files this run has written and not removed
    removeFailed,\* os.remove(temp_filename) raised
    rendered,    \* analyze_shoes built charts_fig and table_fig
    shown,       \* plt.show() was called
    prompted,    \* input() was called at least once
    fault,       \* the exception that left main unhandled, or "none"
    depth,       \* get_shoe_data: the number of calls waiting in "return get_shoe_data()"
    num_shoes,   \* get_shoe_data: num_shoes
    cur,         \* get_shoe_data: brand, name, color, usage as last read
    size_input,  \* get_shoe_data: size_input as last read
    brand_counts,\* analyze_shoes: brand_counts, the rows [brand, count] of the brand chart
    brand_usage  \* analyze_shoes: brand_usage, the rows [brand, cells] of the cross tabulation

vars == <<pc, tty, lines, shoes, warnings, msgs, files, removeFailed, rendered, shown,
          prompted, fault, depth, num_shoes, cur, size_input, brand_counts, brand_usage>>

\* CPython's default sys.getrecursionlimit(), which the program never changes
RecursionLimit == 1000
\* the frames below the first get_shoe_data: <module> and main
BaseFrames == 2

NoFields == [brand |-> <<>>, name |-> <<>>, color |-> <<>>, usage |-> <<>>]

Init ==
    /\ pc = "start"
    /\ tty \in BOOLEAN
    /\ lines = <<>>
    /\ shoes = Unbound
    /\ warnings = <<>>
    /\ msgs = {}
    /\ files = {}
    /\ removeFailed = FALSE
    /\ rendered = FALSE
    /\ shown = FALSE
    /\ prompted = FALSE
    /\ fault = "none"
    /\ depth = 0
    /\ num_shoes = 0
    /\ cur = NoFields
    /\ size_input = <<>>
    /\ brand_counts = <<>>
    /\ brand_usage = <<>>

\* an exception nothing catches: main is left at the statement that raised
Crash(exc) == pc' = "crashed" /\ fault' = exc

gsd_vars == <<depth, num_shoes, cur, size_input>>
out_vars == <<rendered, shown, brand_counts, brand_usage>>

(* ------------------------------------------------------------------ *)
(* main: piped input                                                   *)
(* ------------------------------------------------------------------ *)
\* open(temp_filename, 'w') and the write of sys.stdin.read(); no handler
PipedBuffer ==
    /\ pc = "start" /\ ~tty
    /\ \E o \in WriteOutcomes :
         /\ files' = IF o = "open_failed" THEN files ELSE files \cup {temp_filename}
         /\ IF o = "ok" THEN pc' = "piped_read" /\ fault' = fault
                        ELSE Crash("OSError")
    /\ UNCHANGED <<tty, lines, shoes, warnings, msgs, removeFailed, prompted>>
    /\ UNCHANGED gsd_vars /\ UNCHANGED out_vars

\* read_shoe_data_from_file(name) as called from main: opened says whether
\* open() succeeded, readable whether readlines() did, content is what was read
ReadCall(opened, readable, content, next) ==
    /\ pc' = next
    /\ IF ~opened
       THEN /\ lines' = <<>> /\ shoes' = None /\ warnings' = warnings
            /\ msgs' = msgs \cup {"file_not_found"}
       ELSE IF ~readable
       THEN /\ lines' = <<>> /\ shoes' = None /\ warnings' = warnings
            /\ msgs' = msgs \cup {"read_error"}
       ELSE LET r == ReadShoeData(content)
            IN  /\ lines' = content
                /\ shoes' = r.shoes
                /\ warnings' = warnings \o r.warns
                /\ msgs' = msgs \cup r.msgs

\* shoes = read_shoe_data_from_file(temp_filename)
PipedRead ==
    /\ pc = "piped_read"
    /\ \E readable \in BOOLEAN, content \in Files :
         ReadCall(TRUE, readable, content, "piped_cleanup")
    /\ UNCHANGED <<tty, files, removeFailed, prompted, fault>>
    /\ UNCHANGED gsd_vars /\ UNCHANGED out_vars

\* the cleanup forgotten: the test of shoes alone
PipedCleanup_NoRemove ==
    /\ pc = "piped_cleanup"
    /\ IF shoes = None \/ Len(shoes.list) = 0
       THEN /\ msgs' = msgs \cup {"no_piped_data"}
            /\ pc' = "exited"
       ELSE /\ msgs' = msgs
            /\ pc' = "analyze"
    /\ lines' = <<>>
    /\ UNCHANGED <<tty, shoes, warnings, files, removeFailed, prompted, fault>>
    /\ UNCHANGED gsd_vars /\ UNCHANGED out_vars

\* the cleanup placed after the early return: done only when records were found
PipedCleanup_RemoveAfterReturn ==
    /\ pc = "piped_cleanup"
    /\ IF shoes = None \/ Len(shoes.list) = 0
       THEN /\ msgs' = msgs \cup {"no_piped_data"}
            /\ pc' = "exited"
            /\ UNCHANGED <<files, removeFailed>>
       ELSE /\ msgs' = msgs
            /\ pc' = "analyze"
            /\ \E ok \in BOOLEAN :
                 /\ files' = IF ok THEN files \ {temp_filename} ELSE files
                 /\ removeFailed' = ~ok
    /\ lines' = <<>>
    /\ UNCHANGED <<tty, shoes, warnings, prompted, fault>>
    /\ UNCHANGED gsd_vars /\ UNCHANGED out_vars

\* try: os.remove(temp_filename) except: pass; then the test of shoes
PipedCleanup ==
    /\ pc = "piped_cleanup"
    /\ \E ok \in BOOLEAN :
         /\ files' = IF ok THEN files \ {temp_filename} ELSE files
         /\ removeFailed' = ~ok
    /\ IF shoes = None \/ Len(shoes.list) = 0
       THEN /\ msgs' = msgs \cup {"no_piped_data"}
            /\ pc' = "exited"
       ELSE /\ msgs' = msgs
            /\ pc' = "analyze"
    /\ lines' = <<>>
    /\ UNCHANGED <<tty, shoes, warnings, prompted, fault>>
    /\ UNCHANGED gsd_vars /\ UNCHANGED out_vars

(* ------------------------------------------------------------------ *)
(* main: the menu, the file and the template                           *)
(* ------------------------------------------------------------------ *)
\* choice = input("\nEnter your choice (1-3): ").strip() and the dispatch on it
Menu ==
    /\ pc = "start" /\ tty
    /\ prompted' = TRUE
    /\ \E a \in MenuAnswers :
         IF a = EOF THEN Crash("EOFError") /\ msgs' = msgs
         ELSE /\ fault' = fault
              /\ LET choice == Strip(a) IN
                 IF choice = <<"1">> THEN pc' = "count" /\ msgs' = msgs
                 ELSE IF choice = <<"2">> THEN pc' = "ask_path" /\ msgs' = msgs
                 ELSE IF choice = <<"3">> THEN pc' = "ask_template" /\ msgs' = msgs
                 ELSE pc' = "exited" /\ msgs' = msgs \cup {"invalid_choice"}
    /\ UNCHANGED <<tty, lines, shoes, warnings, files, removeFailed>>
    /\ UNCHANGED gsd_vars /\ UNCHANGED out_vars

\* filename = input(...).strip(); shoes = read_shoe_data_from_file(filename)
AskPath ==
    /\ pc = "ask_path"
    /\ \E a \in PathAnswers :
         IF a = EOF
         THEN Crash("EOFError") /\ UNCHANGED <<lines, shoes, warnings, msgs>>
         ELSE /\ fault' = fault
              /\ \E opened \in BOOLEAN, readable \in BOOLEAN, content \in Files :
                   ReadCall(opened, readable, content, "file_result")
    /\ UNCHANGED <<tty, files, removeFailed, prompted>>
    /\ UNCHANGED gsd_vars /\ UNCHANGED out_vars

\* if shoes is None: print("Would you like to enter data manually instead? (y/n): ")
FileResult ==
    /\ pc = "file_result"
    /\ IF shoes = None
       THEN pc' = "file_fallback" /\ msgs' = msgs \cup {"offer_manual"}
       ELSE pc' = "analyze" /\ msgs' = msgs
    /\ lines' = <<>>
    /\ UNCHANGED <<tty, shoes, warnings, files, removeFailed, prompted, fault>>
    /\ UNCHANGED gsd_vars /\ UNCHANGED out_vars

\* if input().lower() == 'y': shoes = get_shoe_data() else: print("Exiting program."); return
Fallback(at) ==
    /\ pc = at
    /\ \E a \in YesNoAnswers :
         IF a = EOF THEN Crash("EOFError") /\ msgs' = msgs
         ELSE /\ fault' = fault
              /\ IF LowerStr(a) = <<"y">>
                 THEN pc' = "count" /\ msgs' = msgs
                 ELSE pc' = "exited" /\ msgs' = msgs \cup {"exiting"}
    /\ UNCHANGED <<tty, lines, shoes, warnings, files, removeFailed, prompted>>
    /\ UNCHANGED gsd_vars /\ UNCHANGED out_vars

FileFallback == Fallback("file_fallback")
TemplateFallback == Fallback("template_fallback")

\* create_template_file(filename), then main's print of the y/n question:
\* the write succeeds or its error is caught and printed
create_template_file(filename, o) ==
    /\ files' = IF o = "open_failed" THEN files ELSE files \cup {filename}
    /\ msgs' = msgs \cup {IF o = "ok" THEN "template_created" ELSE "template_error",
                          "offer_manual"}

\* the template branch of main up to the y/n question
AskTemplate ==
    /\ pc = "ask_template"
    /\ \E a \in TemplateNameAnswers :
         IF a = EOF
         THEN Crash("EOFError") /\ UNCHANGED <<files, msgs>>
         ELSE /\ fault' = fault
              /\ pc' = "template_fallback"
              /\ \E o \in WriteOutcomes :
                   create_template_file(IF Strip(a) = <<>> THEN DefaultTemplate ELSE Strip(a), o)
    /\ UNCHANGED <<tty, lines, shoes, warnings, removeFailed, prompted>>
    /\ UNCHANGED gsd_vars /\ UNCHANGED out_vars

(* ------------------------------------------------------------------ *)
(* get_shoe_data                                                       *)
(* While the prompts run, shoes holds the function's own list; main    *)
(* receives it at the return.                                          *)
(* ------------------------------------------------------------------ *)
io_vars == <<tty, lines, warnings, files, removeFailed, prompted>>

\* num_shoes = int(input(...)); except ValueError: return get_shoe_data()
\* depth is read by this prompt only: it is dropped once a count is accepted
CountPrompt ==
    /\ pc = "count"
    /\ \E a \in CountAnswers :
         IF a = EOF
         THEN Crash("EOFError") /\ UNCHANGED <<shoes, msgs, depth, num_shoes>>
         ELSE IF ~IsIntLiteral(a)
         THEN /\ UNCHANGED <<shoes, msgs, num_shoes>>
              /\ IF BaseFrames + depth + 2 > RecursionLimit
                 THEN Crash("RecursionError") /\ depth' = depth
                 ELSE pc' = "count" /\ fault' = fault /\ depth' = depth + 1
         ELSE /\ num_shoes' = IntValue(a)
              /\ shoes' = List(<<>>)
              /\ depth' = 0
              /\ msgs' = msgs
              /\ fault' = fault
              /\ pc' = IF IntValue(a) >= 1 THEN "brand" ELSE "analyze"
    /\ UNCHANGED <<cur, size_input>>
    /\ UNCHANGED io_vars /\ UNCHANGED out_vars

\* one free-text prompt: input(...).strip().capitalize()
TextPrompt(at, answers, field, next) ==
    /\ pc = at
    /\ \E a \in answers :
         IF a = EOF THEN Crash("EOFError") /\ cur' = cur
         ELSE /\ cur' = [cur EXCEPT ![field] = Capitalize(Strip(a))]
              /\ pc' = next
              /\ fault' = fault
    /\ UNCHANGED <<shoes, msgs, depth, num_shoes, size_input>>
    /\ UNCHANGED io_vars /\ UNCHANGED out_vars

BrandPrompt == TextPrompt("brand", BrandAnswers, "brand", "name")
NamePrompt == TextPrompt("name", NameAnswers, "name", "color")
ColorPrompt == TextPrompt("color", ColorAnswers, "color", "usage")

\* while True: usage = input(...).strip().capitalize(); break when it is allowed
UsagePrompt ==
    /\ pc = "usage"
    /\ \E a \in UsageAnswers :
         IF a = EOF THEN Crash("EOFError") /\ cur' = cur
         ELSE LET usage == Capitalize(Strip(a)) IN
              /\ cur' = [cur EXCEPT !.usage = usage]
              /\ fault' = fault
              /\ pc' = IF usage \in UsageValues THEN "size" ELSE "usage"
    /\ UNCHANGED <<shoes, msgs, depth, num_shoes, size_input>>
    /\ UNCHANGED io_vars /\ UNCHANGED out_vars

\* the conversion with the sign dropped
SizeOf_Unsigned(tok) ==
    IF ~IsFloatLiteral(tok) THEN Zero
    ELSE LET v == FloatValue(tok) IN [v EXCEPT !.m = IF v.m < 0 THEN -v.m ELSE v.m]

\* float(size_input), with 0 and a message on ValueError
SizeOf(tok) == IF IsFloatLiteral(tok) THEN FloatValue(tok) ELSE Zero

\* size_input = input(...).strip(); the float(); shoes.append(...); the end of the loop
SizePrompt ==
    /\ pc = "size"
    /\ \E a \in SizeAnswers :
         IF a = EOF THEN Crash("EOFError") /\ UNCHANGED <<shoes, msgs, size_input>>
         ELSE /\ size_input' = Strip(a)
              /\ msgs' = IF IsFloatLiteral(Strip(a)) THEN msgs ELSE msgs \cup {"invalid_size"}
              /\ shoes' = List(Append(shoes.list,
                               ShoeRecord(cur.brand, cur.name, cur.color, cur.usage,
                                          SizeOf(Strip(a)))))
              /\ fault' = fault
              /\ pc' = IF Len(shoes.list) + 1 >= num_shoes THEN "analyze" ELSE "brand"
    /\ UNCHANGED <<depth, num_shoes, cur>>
    /\ UNCHANGED io_vars /\ UNCHANGED out_vars

(* ------------------------------------------------------------------ *)
(* analyze_shoes, as main calls it                                     *)
(* ------------------------------------------------------------------ *)
\* the number of brands both brand panels keep: head(8)
TopN == 8

\* the order of str under <, by code point, for the characters of the model
CodeTable == <<"\t", "\n", "\r", " ", "#", "+", ",", "-", ".">> \o Digits \o UpperAlpha
             \o <<"_">> \o LowerAlpha
CharCode(c) == IndexIn(c, CodeTable)

RECURSIVE LexLess(_, _)
LexLess(a, b) ==
    IF b = <<>> THEN FALSE
    ELSE IF a = <<>> THEN TRUE
    ELSE IF Head(a) = Head(b) THEN LexLess(Tail(a), Tail(b))
    ELSE CharCode(Head(a)) < CharCode(Head(b))

\* the labels of S in ascending order, as the index of a crosstab is
RECURSIVE SortLabels(_)
SortLabels(S) ==
    IF S = {} THEN <<>>
    ELSE LET m == CHOOSE x \in S : \A y \in S \ {x} : LexLess(x, y)
         IN  <<m>> \o SortLabels(S \ {m})

BrandsOf(recs) == { recs[i].brand : i \in 1..Len(recs) }
CountOf(recs, b) == Cardinality({ i \in 1..Len(recs) : recs[i].brand = b })
CellOf(recs, b, u) ==
    Cardinality({ i \in 1..Len(recs) : recs[i].brand = b /\ recs[i].usage = u })

RECURSIVE Perms(_)
Perms(S) == IF S = {} THEN { <<>> }
            ELSE UNION { { <<x>> \o p : p \in Perms(S \ {x}) } : x \in S }

\* Series.sort_values(ascending=False) with the default kind (quicksort, not
\* stable): every order of the entries by descending count; entries of
\* equal count come in an order the sort does not promise
RECURSIVE SortValuesDescending(_)
SortValuesDescending(S) ==
    IF S = {} THEN { <<>> }
    ELSE LET top == { e \in S : \A f \in S : f.count <= e.count }
         IN  { p \o q : p \in Perms(top), q \in SortValuesDescending(S \ top) }

\* Series.head(n)
HeadOf(s, n) == SubSeq(s, 1, IF Len(s) < n THEN Len(s) ELSE n)

\* df['brand'].value_counts().head(8): the values brand_counts can take
BrandCounts(recs) ==
    { HeadOf(s, TopN) :
        s \in SortValuesDescending({ [brand |-> b, count |-> CountOf(recs, b)]
                                        : b \in BrandsOf(recs) }) }

\* pd.crosstab(df['brand'], df['usage']): one row per brand, by ascending
\* label, one cell per usage that occurs
Crosstab(recs) ==
    LET labels == SortLabels(BrandsOf(recs))
        usages == { recs[i].usage : i \in 1..Len(recs) }
    IN  [ k \in 1..Len(labels) |->
            [brand |-> labels[k], cells |-> [u \in usages |-> CellOf(recs, labels[k], u)]] ]

RECURSIVE SumCells(_, _)
SumCells(cells, left) ==
    IF left = {} THEN 0
    ELSE LET u == CHOOSE x \in left : TRUE
         IN  cells[u] + SumCells(cells, left \ {u})
\* brand_usage.sum(axis=1) for one row
RowSum(row) == SumCells(row.cells, DOMAIN row.cells)

\* brand_usage.loc[brand_usage.sum(axis=1).sort_values(ascending=False).head(8).index]:
\* the values brand_usage can take
BrandUsage(recs) ==
    LET tab == Crosstab(recs)
        rowOf(b) == tab[CHOOSE k \in 1..Len(tab) : tab[k].brand = b]
    IN  { LET top == HeadOf(s, TopN) IN [ k \in 1..Len(top) |-> rowOf(top[k].brand) ] :
            s \in SortValuesDescending({ [brand |-> tab[k].brand, count |-> RowSum(tab[k])]
                                            : k \in 1..Len(tab) }) }

\* df = create_dataframe(shoes); charts_fig, table_fig = analyze_shoes(df, is_piped_input)
\* For an empty frame analyze_shoes prints and returns None, and the
\* unpacking of None raises TypeError.
Analyze ==
    /\ pc = "analyze"
    /\ IF shoes.list = <<>>
       THEN /\ msgs' = msgs \cup {"analyzing", "no_data_for_analysis"}
            /\ Crash("TypeError")
            /\ UNCHANGED out_vars
       ELSE /\ msgs' = msgs \cup {"analyzing"}
            /\ rendered' = TRUE
            /\ shown' = tty
            /\ brand_counts' \in BrandCounts(shoes.list)
            /\ brand_usage' \in BrandUsage(shoes.list)
            /\ fault' = fault
            /\ pc' = IF tty THEN "ask_save_csv" ELSE "piped_csv"
    /\ UNCHANGED <<tty, lines, shoes, warnings, files, removeFailed, prompted>>
    /\ UNCHANGED gsd_vars

(* ------------------------------------------------------------------ *)
(* main: saving                                                        *)
(* ------------------------------------------------------------------ *)
keep_vars == <<tty, lines, shoes, warnings, removeFailed, prompted>>

\* one df.to_csv or savefig outside any handler of OSError
WriteFile(name, o, next, said) ==
    /\ files' = IF o = "open_failed" THEN files ELSE files \cup {name}
    /\ IF o = "ok" THEN /\ msgs' = msgs \cup said
                        /\ pc' = next
                        /\ fault' = fault
                   ELSE /\ Crash("OSError")
                        /\ msgs' = msgs

PipedSaveCsv ==
    /\ pc = "piped_csv"
    /\ \E o \in WriteOutcomes : WriteFile(DefaultCsv, o, "piped_charts", {"data_saved"})
    /\ UNCHANGED keep_vars /\ UNCHANGED gsd_vars /\ UNCHANGED out_vars

PipedSaveCharts ==
    /\ pc = "piped_charts"
    /\ \E o \in WriteOutcomes : WriteFile(DefaultCharts, o, "piped_table", {"charts_saved"})
    /\ UNCHANGED keep_vars /\ UNCHANGED gsd_vars /\ UNCHANGED out_vars

\* the table image, then the closing message
PipedSaveTable ==
    /\ pc = "piped_table"
    /\ \E o \in WriteOutcomes : WriteFile(DefaultTable, o, "done", {"table_saved", "closing"})
    /\ UNCHANGED keep_vars /\ UNCHANGED gsd_vars /\ UNCHANGED out_vars

\* except EOFError: the three writes with the default names, k of them
\* succeeding before one raises (leaving its file or not), then the closing message
EofSave ==
    \E k \in 0..3, partial \in BOOLEAN :
      LET names == <<DefaultCsv, DefaultCharts, DefaultTable>> IN
      /\ k = 3 => ~partial
      /\ files' = files \cup { names[i] : i \in 1..(IF partial THEN k + 1 ELSE k) }
      /\ IF k = 3
         THEN /\ msgs' = msgs \cup {"input_error", "closing"}
              /\ pc' = "done"
              /\ fault' = fault
         ELSE /\ msgs' = msgs \cup {"input_error"}
              /\ Crash("OSError")

\* a y/n prompt inside the try block
SavePrompt(at, yes, no, saidNo) ==
    /\ pc = at
    /\ \E a \in YesNoAnswers :
         IF a = EOF THEN EofSave
         ELSE /\ UNCHANGED <<files, fault>>
              /\ IF LowerStr(a) = <<"y">>
                 THEN pc' = yes /\ msgs' = msgs
                 ELSE pc' = no /\ msgs' = msgs \cup saidNo
    /\ UNCHANGED keep_vars /\ UNCHANGED gsd_vars /\ UNCHANGED out_vars

AskSaveCsv == SavePrompt("ask_save_csv", "ask_csv_name", "ask_save_figs", {})
AskSaveFigs == SavePrompt("ask_save_figs", "ask_charts_name", "done", {"closing"})

\* the filename a prompt yields: stripped, defaulted, extension appended
CsvName(a) ==
    LET f == IF Strip(a) = <<>> THEN DefaultCsv ELSE Strip(a)
    IN  IF EndsWith(f, CsvExt) THEN f ELSE f \o CsvExt
FigureName(a, default) ==
    LET f == IF Strip(a) = <<>> THEN default ELSE Strip(a)
    IN  IF \E x \in FigureExts : EndsWith(LowerStr(f), x) THEN f ELSE f \o PngExt

\* a filename prompt inside the try block and the write that follows it;
\* nameOf[a] is the filename answer a yields
NamePromptAndSave(at, answers, nameOf, next, said) ==
    /\ pc = at
    /\ \E a \in answers :
         IF a = EOF THEN EofSave
         ELSE \E o \in WriteOutcomes : WriteFile(nameOf[a], o, next, said)
    /\ UNCHANGED keep_vars /\ UNCHANGED gsd_vars /\ UNCHANGED out_vars

ChartsName(a) == FigureName(a, DefaultCharts)
TableName(a) == FigureName(a, DefaultTable)

AskCsvName ==
    NamePromptAndSave("ask_csv_name", CsvNameAnswers, [a \in CsvNameAnswers |-> CsvName(a)],
                      "ask_save_figs", {"data_saved"})
AskChartsName ==
    NamePromptAndSave("ask_charts_name", ChartsNameAnswers,
                      [a \in ChartsNameAnswers |-> ChartsName(a)], "ask_table_name",
                      {"charts_saved"})
AskTableName ==
    NamePromptAndSave("ask_table_name", TableNameAnswers,
                      [a \in TableNameAnswers |-> TableName(a)], "done",
                      {"table_saved", "closing"})

(* ------------------------------------------------------------------ *)
(* The program                                                         *)
(* ------------------------------------------------------------------ *)
Next ==
    \/ PipedBuffer \/ PipedRead \/ PipedCleanup
    \/ Menu \/ AskPath \/ FileResult \/ FileFallback
    \/ AskTemplate \/ TemplateFallback
    \/ CountPrompt \/ BrandPrompt \/ NamePrompt \/ ColorPrompt \/ UsagePrompt \/ SizePrompt
    \/ Analyze
    \/ PipedSaveCsv \/ PipedSaveCharts \/ PipedSaveTable
    \/ AskSaveCsv \/ AskCsvName \/ AskSaveFigs \/ AskChartsName \/ AskTableName

Spec == Init /\ [][Next]_vars

(* ------------------------------------------------------------------ *)
(* Piped runs over inventories of many brands                          *)
(* ------------------------------------------------------------------ *)
\* the number of one-letter brands the inventories below draw from
NumBrands == 9

UsageTokens == << <<"c","a","s","u","a","l">>, <<"a","t","h","l","e","t","i","c">>,
                  <<"f","o","r","m","a","l">> >>

\* the j-th line of brand b
BrandRow(b, j) == Join(<<b, tName, tColor, UsageTokens[(j % 3) + 1], <<"9">> >>)

\* the number of lines of the brand met k-th among n: the brands come in
\* pairs of equal count, the last met being the rarest
LinesOf(n, k) == (n - k + 2) \div 2

\* the lines of the brands order[from..n], brand after brand
RECURSIVE BrandBlocks(_, _)
BrandBlocks(order, from) ==
    IF from > Len(order) THEN <<>>
    ELSE [ j \in 1..LinesOf(Len(order), from) |-> BrandRow(order[from], j) ]
         \o BrandBlocks(order, from + 1)

\* n brands met in alphabetical order, or in the reverse of it
BrandOrders ==
    UNION { { [ k \in 1..n |-> <<LowerAlpha[k]>> ], [ k \in 1..n |-> <<LowerAlpha[n + 1 - k]>> ] }
            : n \in 1..NumBrands }

\* the stream piped in: a header line and the lines of the brands
BrandFiles == { <<RowHeader>> \o BrandBlocks(order, 1) : order \in BrandOrders }

\* main after shoes = read_shoe_data_from_file(temp_filename) returned for one
\* of these streams, the temporary file still in place
InitTop8 ==
    /\ pc = "piped_cleanup"
    /\ tty = FALSE
    /\ \E content \in BrandFiles :
         LET r == ReadShoeData(content)
         IN  /\ lines = content
             /\ shoes = r.shoes
             /\ warnings = r.warns
             /\ msgs = r.msgs
    /\ files = {temp_filename}
    /\ removeFailed = FALSE
    /\ rendered = FALSE
    /\ shown = FALSE
    /\ prompted = FALSE
    /\ fault = "none"
    /\ depth = 0
    /\ num_shoes = 0
    /\ cur = NoFields
    /\ size_input = <<>>
    /\ brand_counts = <<>>
    /\ brand_usage = <<>>

NextTop8 == PipedCleanup \/ Analyze

SpecTop8 == InitTop8 /\ [][NextTop8]_vars

(* ------------------------------------------------------------------ *)
(* Properties                                                          *)
(* ------------------------------------------------------------------ *)
\* read_shoe_data_from_file has just returned from a file that opened and read
ReadReturned == /\ pc \in {"piped_cleanup", "file_result"}
                /\ "file_not_found" \notin msgs
                /\ "read_error" \notin msgs

CommaCount(l) == Len(SelectSeq(l, LAMBDA c : c = ","))

\* a line that is neither blank nor '#'-prefixed and has at least 5 fields
IsRow(l) == /\ \E i \in 1..Len(l) : l[i] \notin Whitespace
            /\ LStrip(l)[1] # "#"
            /\ CommaCount(l) >= 4

\* the rows among the lines after the first, in their order
Rows(ls) == IF ls = <<>> THEN <<>> ELSE SelectSeq(Tail(ls), IsRow)

Field(l, k) == Strip(Split(l, ",")[k])

\* record r is row l normalised: text stripped and capitalized, usage validated
Normalised(r, l) == /\ r.brand = Capitalize(Field(l, 1))
                    /\ r.name = Capitalize(Field(l, 2))
                    /\ r.color = Capitalize(Field(l, 3))
                    /\ r.usage \in UsageValues

RecordsMatchRows == /\ shoes.tag = "list"
                    /\ Len(shoes.list) = Len(Rows(lines))
                    /\ \A i \in 1..Len(Rows(lines)) : Normalised(shoes.list[i], Rows(lines)[i])

\* C1 as stated: a file with N rows after its first line yields exactly N
\* records, in the order of the rows, each normalised; nothing else yields one.
C1_AsStated == ReadReturned => RecordsMatchRows

\* C1 amended: for N >= 1 rows the collector returns exactly the N normalised
\* records in row order; for N = 0 it returns None (no list) after the
\* no-valid-data message.
C1_RowsToRecords ==
    ReadReturned =>
        IF Rows(lines) = <<>>
        THEN shoes = None /\ "no_valid_data_in_file" \in msgs
        ELSE RecordsMatchRows

\* C1 witness: a three-line file whose second and third lines are different
\* rows has been read into two records
C1_Witness == /\ ReadReturned
              /\ Len(lines) = 3
              /\ Len(Rows(lines)) = 2
              /\ Len(shoes.list) = 2
              /\ shoes.list[1] # shoes.list[2]

BadUsage(l) == Capitalize(Field(l, 4)) \notin UsageValues
BadSize(l) == ~IsFloatLiteral(Field(l, 5))

\* the fields defaulted in the rows, in reading order
RECURSIVE Defaulted(_)
Defaulted(rows) ==
    IF rows = <<>> THEN <<>>
    ELSE (IF BadUsage(Head(rows)) THEN <<"usage">> ELSE <<>>)
         \o (IF BadSize(Head(rows)) THEN <<"size">> ELSE <<>>)
         \o Defaulted(Tail(rows))

\* C2: a row with an out-of-enum usage or a non-numeric size is still
\* returned, with usage Casual (size 0), the read does not abort, and the
\* warnings are exactly one per defaulted field, in reading order, so a row
\* with valid fields adds none.
C2_DefaultsWithWarning ==
    (ReadReturned /\ Rows(lines) # <<>>) =>
        LET rows == Rows(lines) IN
        /\ fault = "none"
        /\ shoes.tag = "list"
        /\ Len(shoes.list) = Len(rows)
        /\ \A i \in 1..Len(rows) :
             /\ BadUsage(rows[i]) => shoes.list[i].usage = Casual
             /\ ~BadUsage(rows[i]) => shoes.list[i].usage = Capitalize(Field(rows[i], 4))
             /\ BadSize(rows[i]) => shoes.list[i].size = Zero
        /\ Len(warnings) = Len(Defaulted(rows))
        /\ \A j \in 1..Len(warnings) : warnings[j][1] = Defaulted(rows)[j]

\* C2 witness: a file with a row defaulted in both fields and a row with
\* valid fields was read: two records, two warnings
C2_Witness == /\ ReadReturned
              /\ Len(Rows(lines)) = 2
              /\ BadUsage(Rows(lines)[1]) /\ BadSize(Rows(lines)[1])
              /\ ~BadUsage(Rows(lines)[2]) /\ ~BadSize(Rows(lines)[2])
              /\ Len(shoes.list) = 2
              /\ Len(warnings) = 2

\* a CSV or image file
IsArtifact(f) == EndsWith(f, CsvExt) \/ \E x \in FigureExts : EndsWith(LowerStr(f), x)
DefaultArtifacts == {DefaultCsv, DefaultCharts, DefaultTable}
Ended == pc \in {"done", "exited", "crashed"}

\* C3: an empty record list at the rendering step gives the no-data message,
\* no figure, no CSV or image, and a handled end of the run
C3_EmptyIsHandled ==
    (shoes = List(<<>>) /\ "analyzing" \in msgs) =>
        /\ "no_data_for_analysis" \in msgs
        /\ ~rendered
        /\ \A f \in files : ~IsArtifact(f)
        /\ fault = "none"

\* C4 as stated: at every early termination no file written by the run exists
C4_AsStated == pc = "exited" => files = {}

\* C4 amended: at every early termination no CSV and no image exists; after an
\* invalid choice or a declined fallback from a failed file read no file at
\* all exists; the temporary file exists only if its removal failed; any
\* other file is the template of the template path.
C4_NoArtifactAtEarlyExit ==
    pc = "exited" =>
        /\ \A f \in files : ~IsArtifact(f)
        /\ "invalid_choice" \in msgs => files = {}
        /\ ("exiting" \in msgs /\ {"template_created", "template_error"} \cap msgs = {})
              => files = {}
        /\ temp_filename \in files <=> (~tty /\ removeFailed)
        /\ ~tty => files \subseteq {temp_filename}
        /\ Cardinality(files) <= 1

\* C4 witness: the template path ended early with the template on disk
C4_Witness == /\ pc = "exited"
              /\ "template_created" \in msgs
              /\ files = {DefaultTemplate}

\* C5: a piped run with at least one record ends having prompted for nothing,
\* shown nothing, rendered, written the three files and printed the closing
C5_PipedSavesAll ==
    (~tty /\ Ended /\ shoes.tag = "list" /\ shoes.list # <<>>) =>
        /\ ~prompted
        /\ ~shown
        /\ rendered
        /\ DefaultArtifacts \subseteq files
        /\ "closing" \in msgs

\* C6: in an interactive run end-of-input at a prompt is never an unhandled
\* fault, and the run it ended has the three default files and the closing
C6_EofIsCaught ==
    /\ fault # "EOFError"
    /\ ("input_error" \in msgs /\ Ended) =>
          (pc = "done" /\ DefaultArtifacts \subseteq files /\ "closing" \in msgs)

\* C7: no resource error is an unhandled fault, and a template write failure
\* is followed by the manual-entry question
C7_ResourceErrorsHandled ==
    /\ fault # "OSError"
    /\ "template_error" \in msgs => "offer_manual" \in msgs

\* the piped run is past the removal of the temporary file
PastCleanup == ~tty /\ shoes # Unbound /\ pc # "piped_cleanup"

\* C8 as stated: the temporary file exists while the parser runs and no piped
\* run that reached parsing goes on or ends with it left behind
C8_AsStated ==
    /\ pc = "piped_read" => temp_filename \in files
    /\ PastCleanup => temp_filename \notin files

\* C8 amended: the temporary file exists from before parsing until the
\* removal; once the removal was attempted, whatever the parse outcome, the
\* file is left behind exactly when the removal itself failed; the removal
\* step never faults and prints nothing but the no-data message.
C8_TempFileLifecycle ==
    /\ [](/\ pc \in {"piped_read", "piped_cleanup"} => temp_filename \in files
          /\ PastCleanup => (temp_filename \in files <=> removeFailed)
          /\ (~tty /\ (rendered \/ pc = "exited")) => PastCleanup)
    /\ [][pc = "piped_cleanup" =>
             /\ pc' \in {"analyze", "exited"}
             /\ fault' = "none"
             /\ msgs' \subseteq msgs \cup {"no_piped_data"}]_vars

\* C8 witness: a piped run whose parse found nothing ended with the file removed
C8_Witness == /\ pc = "exited" /\ ~tty /\ shoes = None
              /\ ~removeFailed /\ temp_filename \notin files

\* C9: non-integer answers to the count prompt never crash the collection,
\* which then returns exactly n records with allowed usages
C9_CountRetries ==
    /\ fault # "RecursionError"
    /\ (pc = "analyze" /\ num_shoes >= 1) =>
          /\ Len(shoes.list) = num_shoes
          /\ \A i \in 1..Len(shoes.list) : shoes.list[i].usage \in UsageValues

\* a numeral below zero
IsNegativeNumeral(tok) ==
    /\ IsFloatLiteral(tok)
    /\ Strip(tok)[1] = "-"
    /\ \E i \in 1..Len(tok) : IsDigit(tok[i]) /\ tok[i] # "0"

SizeMatchesToken(size, tok) ==
    /\ ~IsFloatLiteral(tok) => size = Zero
    /\ IsFloatLiteral(tok) => (NonNegative(size) <=> ~IsNegativeNumeral(tok))

FirstSeen(recs, b) == CHOOSE i \in 1..Len(recs) :
                         /\ recs[i].brand = b
                         /\ \A j \in 1..(i - 1) : recs[j].brand # b

\* brand a ranks before brand b: more records, or as many and met earlier
RanksBefore(recs, a, b) ==
    \/ CountOf(recs, a) > CountOf(recs, b)
    \/ /\ CountOf(recs, a) = CountOf(recs, b)
       /\ FirstSeen(recs, a) < FirstSeen(recs, b)

RowBrands(rows) == { rows[k].brand : k \in 1..Len(rows) }

\* C11: once a non-empty record sequence is rendered, the cross tabulation has
\* min(8, number of distinct brands) rows, one per brand; its rows come by
\* descending record count, brands of equal count in the order the input met
\* them, and every brand left out ranks after every row in that same order;
\* and the brand count chart shows the same set of brands
C11_Top8ByCountThenEncounter ==
    rendered =>
        LET recs == shoes.list
            all == BrandsOf(recs)
            n == Len(brand_usage)
        IN  /\ n = (IF Cardinality(all) < 8 THEN Cardinality(all) ELSE 8)
            /\ RowBrands(brand_usage) \subseteq all
            /\ Cardinality(RowBrands(brand_usage)) = n
            /\ \A k, l \in 1..n :
                  k < l => RanksBefore(recs, brand_usage[k].brand, brand_usage[l].brand)
            /\ \A k \in 1..n : \A b \in all \ RowBrands(brand_usage) :
                  RanksBefore(recs, brand_usage[k].brand, b)
            /\ RowBrands(brand_counts) = RowBrands(brand_usage)

====
